---- MODULE Spec2Model ----
(***************************************************************************)
(* IntelliJect: the HTTP handlers of fastapi_app.py (get_pdf_history,      *)
(* upload_pdf, process_pdf), the PYQ data-access layer of crud.py and the  *)
(* retrieval functions of rag_pipeline.py, as one state machine.           *)
(*                                                                         *)
(* The record store, the PDF renderer, the retrieval index and the         *)
(* generative service are external: each call's outcome (a value or a      *)
(* raised exception) is an input of the action that makes the call.        *)
(***************************************************************************)
EXTENDS Integers, Sequences, FiniteSets, TLC

VARIABLES
    pyqs,          \* table "pyqs": the PYQ rows, in insertion (id) order
    pdf_history,   \* table "pdf_history": the PDFHistory rows, in insertion order
    tmp,           \* the temp file of the request being served: "none", "exists", "deleted"
    unlinks,       \* the outcome of every os.unlink the request has made, in order
    calls,         \* the external collaborators the request has called
    pc,            \* "idle", or "loop" while process_pdf is inside its page loop
    locals,        \* the local variables of the process_pdf request in its loop
    response       \* the last call made and what it returned

vars == <<pyqs, pdf_history, tmp, unlinks, calls, pc, locals, response>>

----------------------------------------------------------------------------
(* Bounds of the model *)

MaxStore == 3
MaxBatch == 2
MaxHistory == 2
MaxPages == 2

(* Program constants *)

DefaultK == 3

Subjects == {"s1", "s2"}
NoSubject == ""

----------------------------------------------------------------------------
(* Sequence helpers *)

SeqsUpTo(S, n) == UNION {[1..m -> S] : m \in 0..n}

Reverse(s) == [i \in 1..Len(s) |-> s[Len(s) + 1 - i]]

Take(s, n) == SubSeq(s, 1, IF n < Len(s) THEN n ELSE Len(s))

----------------------------------------------------------------------------
(* crud.py *)

\* dict.get(key, default)
Get(entry, key, default) == IF key \in DOMAIN entry THEN entry[key] ELSE default

\* (mutant) the validation tests only that the key is present
HasQuestionKeyOnly(entry) == "question" \in DOMAIN entry

\* question = entry.get("question"); "if not question: continue"
HasQuestion(entry) == "question" \in DOMAIN entry /\ entry["question"] # ""

\* models.PYQ(subject=..., sub_topic=..., question=..., marks=..., year=...)
PYQ(entry, subject) ==
    [subject   |-> subject,
     sub_topic |-> Get(entry, "sub_topic", ""),
     question  |-> entry["question"],
     marks     |-> Get(entry, "marks", 0),
     year      |-> Get(entry, "year", "")]

\* The loop of store_pyqs: one PYQ object per entry that passes the validation.
PyqObjects(batch, subject) ==
    LET valid == SelectSeq(batch, HasQuestion)
    IN  [i \in 1..Len(valid) |-> PYQ(valid[i], subject)]

\* (mutant) every object is persisted as it is added, whatever the commit does
CommitBatchAutocommit(table, objects, commit_ok) == table \o objects

\* db.add_all(objects); db.commit(): the batch is one transaction, so it is
\* persisted as a whole when the commit succeeds and not at all when add_all or
\* commit raises (the except branch rolls the session back).
CommitBatch(table, objects, commit_ok) ==
    IF commit_ok THEN table \o objects ELSE table

\* The value store_pyqs returns: len(pyq_objects) after the commit, 0 from the
\* except branch.
StoreReturn(objects, commit_ok) ==
    IF commit_ok THEN Len(objects) ELSE 0

\* The JSON entries a batch is made of: a full entry, one with only a question,
\* one with an empty question and one without a question.
Entries ==
    {[question |-> "q1", sub_topic |-> "t1", marks |-> 5, year |-> "2020"],
     [question |-> "q2"],
     [question |-> "", sub_topic |-> "t1"],
     [sub_topic |-> "t2", marks |-> 2]}

Batches == SeqsUpTo(Entries, MaxBatch)

store_pyqs ==
    \E batch \in Batches, subject \in Subjects, commit_ok \in BOOLEAN :
        LET objects == PyqObjects(batch, subject)
        IN  /\ pc = "idle"
            /\ Len(pyqs) + Len(objects) <= MaxStore
            /\ pyqs' = CommitBatch(pyqs, objects, commit_ok)
            /\ response' = [op        |-> "store_pyqs",
                            pyqs      |-> batch,
                            subject   |-> subject,
                            before    |-> pyqs,
                            commit_ok |-> commit_ok,
                            returned  |-> StoreReturn(objects, commit_ok)]
            /\ UNCHANGED <<pdf_history, tmp, unlinks, calls, pc, locals>>

----------------------------------------------------------------------------
(* data_loader.py *)

\* The line load_pyqs_from_json prints: the success line carries len(pyqs),
\* the length of the list read from the file; the error line carries no count.
LoaderMessage(kind, json_pyqs) ==
    IF kind = "inserted"
    THEN [kind |-> "inserted", count |-> Len(json_pyqs)]
    ELSE [kind |-> "error", count |-> 0]

\* load_pyqs_from_json(json_path, subject): the list read from the file is
\* handed to store_pyqs in a new session and the value store_pyqs returns is
\* dropped. store_pyqs catches the failure of its commit itself, so the except
\* branch is reached only when SessionLocal() raises.
load_pyqs_from_json ==
    \E json_pyqs \in Batches, subject \in Subjects, session_ok \in BOOLEAN :
        LET objects == PyqObjects(json_pyqs, subject)
        IN  /\ pc = "idle"
            /\ Len(pyqs) + Len(objects) <= MaxStore
            /\ IF session_ok
               THEN \E commit_ok \in BOOLEAN :
                      /\ pyqs' = CommitBatch(pyqs, objects, commit_ok)
                      /\ response' = [op        |-> "load_pyqs_from_json",
                                      pyqs      |-> json_pyqs,
                                      subject   |-> subject,
                                      before    |-> pyqs,
                                      commit_ok |-> commit_ok,
                                      stored    |-> TRUE,
                                      returned  |-> StoreReturn(objects, commit_ok),
                                      message   |-> LoaderMessage("inserted", json_pyqs)]
               ELSE /\ pyqs' = pyqs
                    /\ response' = [op        |-> "load_pyqs_from_json",
                                    pyqs      |-> json_pyqs,
                                    subject   |-> subject,
                                    before    |-> pyqs,
                                    commit_ok |-> FALSE,
                                    stored    |-> FALSE,
                                    returned  |-> 0,
                                    message   |-> LoaderMessage("error", json_pyqs)]
            /\ UNCHANGED <<pdf_history, tmp, unlinks, calls, pc, locals>>

----------------------------------------------------------------------------
(* rag_pipeline.py *)

\* Document(page_content=pyq.question, metadata={...})
Document(pyq) ==
    [page_content |-> pyq.question,
     metadata     |-> [year      |-> pyq.year,
                       subject   |-> pyq.subject,
                       sub_topic |-> pyq.sub_topic,
                       marks     |-> pyq.marks]]

\* (mutant) the subject filter is dropped
QueryPyqsUnfiltered(table, subject) == table

\* session.query(PYQ), filtered by subject "if subject" (None and "" do not filter)
QueryPyqs(table, subject) ==
    IF subject # NoSubject
    THEN SelectSeq(table, LAMBDA pyq : pyq.subject = subject)
    ELSE table

\* load_vectorstore_from_db: the documents of the vector store, <<>> for None
load_vectorstore_from_db(table, subject) ==
    LET rows == QueryPyqs(table, subject)
    IN  [i \in 1..Len(rows) |-> Document(rows[i])]

\* The order in which the index ranks the documents for a query is decided by
\* the embedding service: nearest first is either the stored order or its reverse.
Rankings == {"stored", "reversed"}

Ranked(docs, ranking) == IF ranking = "stored" THEN docs ELSE Reverse(docs)

\* vectorstore.similarity_search(query, k=k): the k nearest documents
similarity_search(docs, k, ranking) == Take(Ranked(docs, ranking), k)

\* semantic_search_db: [searched] tells whether similarity_search was called
semantic_search_db(table, subject, k, ranking) ==
    LET docs == load_vectorstore_from_db(table, subject)
    IN  IF docs = <<>>
        THEN [searched |-> FALSE, results |-> <<>>]
        ELSE [searched |-> TRUE, results |-> similarity_search(docs, k, ranking)]

get_relevant_pyqs(table, subject, k, ranking) ==
    semantic_search_db(table, subject, k, ranking)

Queries == {"text"}

GetRelevantPyqs ==
    \E query \in Queries, subject \in Subjects \cup {NoSubject},
       k \in 1..DefaultK, ranking \in Rankings :
        /\ pc = "idle"
        /\ response' = [op       |-> "get_relevant_pyqs",
                        query    |-> query,
                        subject  |-> subject,
                        k        |-> k,
                        searched |-> get_relevant_pyqs(pyqs, subject, k, ranking).searched,
                        returned |-> get_relevant_pyqs(pyqs, subject, k, ranking).results]
        /\ UNCHANGED <<pyqs, pdf_history, tmp, unlinks, calls, pc, locals>>

----------------------------------------------------------------------------
(* utils.py and the external collaborators of fastapi_app.py *)

\* File names are sequences of characters, so that endswith is computed.
Filenames ==
    {<<"a", ".", "p", "d", "f">>,
     <<"a", ".", "t", "x", "t">>,
     <<"a", ".", "P", "D", "F">>,
     <<"p", "d", "f">>}

\* str.endswith(suffix)
EndsWith(s, suffix) ==
    /\ Len(s) >= Len(suffix)
    /\ SubSeq(s, Len(s) - Len(suffix) + 1, Len(s)) = suffix

\* (mutant) the extension is compared without its dot
IsPdfNoDot(filename) == EndsWith(filename, <<"p", "d", "f">>)

\* file.filename.endswith('.pdf')
IsPdf(filename) == EndsWith(filename, <<".", "p", "d", "f">>)

\* A text is the sequence of its sentences. The text of page p of an upload:
PageSentences == <<"alpha.", "beta.", "gamma.", "delta.">>

PageText(p) == <<PageSentences[((p - 1) % Len(PageSentences)) + 1]>>

\* The uploaded files: PDFs of 0..MaxPages pages, and a file fitz cannot read.
PDFs ==
    {[readable |-> TRUE, pages |-> [p \in 1..n |-> PageText(p)]] : n \in 0..MaxPages}
        \cup {[readable |-> FALSE, pages |-> <<>>]}

\* (mutant) the first page is taken for the title page and left out
extract_text_skipping_first(pdf) ==
    [p \in 1..(Len(pdf.pages) - 1) |-> pdf.pages[p + 1]]

\* extract_text_from_pdf: one chunk per page, in page order
extract_text_from_pdf(pdf) == [p \in 1..Len(pdf.pages) |-> pdf.pages[p]]

\* pdf_doc.page_count
page_count(pdf) == Len(pdf.pages)

\* os.unlink(tmp_pdf_path) on the file state fs = [tmp, unlinks]: the file is
\* removed, or the system refuses (PermissionError, a file still in use on
\* Windows), or there is no such file (FileNotFoundError).
os_unlink(fs, permitted) ==
    IF fs.tmp # "exists"
    THEN [tmp |-> fs.tmp, unlinks |-> Append(fs.unlinks, "FileNotFoundError"),
          raised |-> "FileNotFoundError"]
    ELSE IF permitted
    THEN [tmp |-> "deleted", unlinks |-> Append(fs.unlinks, "ok"), raised |-> "none"]
    ELSE [tmp |-> "exists", unlinks |-> Append(fs.unlinks, "PermissionError"),
          raised |-> "PermissionError"]

\* tempfile.NamedTemporaryFile(delete=False, suffix=".pdf"), written and closed
NewTempFile == [tmp |-> "exists", unlinks |-> <<>>]

NoBody == [success |-> FALSE]

\* What a request req = [filename, subject, file] is answered: a response model (status 200), a raised
\* HTTPException (its status and detail; cause is the exception formatted into
\* the detail), or an exception nobody handles (the server's plain 500).
Answer(op, req, status, detail, cause, body) ==
    [op |-> op, filename |-> req.filename, subject |-> req.subject, file |-> req.file,
     status |-> status, detail |-> detail, cause |-> cause, body |-> body]

\* The requests of upload_pdf and process_pdf: file: UploadFile, subject: str
Requests == [filename : Filenames, subject : Subjects, file : PDFs]

OnlyPdf == "Only PDF files are allowed"
NoContent == "Could not extract content from the PDF"
FailedToProcess == "Failed to process PDF"
ServerError == "Internal Server Error"

\* str(HTTPException(400, NoContent)), as the blanket handlers format it
NoContentRaised == "400: Could not extract content from the PDF"

----------------------------------------------------------------------------
(* fastapi_app.py: get_pdf_history *)

\* pdf.timestamp.strftime('%d %b, %Y %I:%M %p'): the minutes are kept, the
\* seconds are dropped. A timestamp counts half-minutes.
strftime(timestamp) == [minute |-> timestamp \div 2]

HistoryItem(pdf) ==
    [filename |-> pdf.filename, subject |-> pdf.subject,
     timestamp |-> strftime(pdf.timestamp)]

Orderings(n) ==
    {f \in [1..n -> 1..n] : \A i, j \in 1..n : i # j => f[i] # f[j]}

\* (mutant) the rows come oldest first
OrderedAsc(table, order) ==
    \A i \in 1..(Len(table) - 1) :
        table[order[i]].timestamp <= table[order[i + 1]].timestamp

\* order_by(PDFHistory.timestamp.desc()): order lists the rows newest first;
\* rows of equal timestamp come in the order the database chooses
OrderedDesc(table, order) ==
    \A i \in 1..(Len(table) - 1) :
        table[order[i]].timestamp >= table[order[i + 1]].timestamp

get_pdf_history ==
    /\ pc = "idle"
    /\ \E db_ok \in BOOLEAN :
         IF db_ok
         THEN \E order \in Orderings(Len(pdf_history)) :
                /\ OrderedDesc(pdf_history, order)
                /\ response' =
                     [op |-> "get_pdf_history", status |-> 200, detail |-> "",
                      body |-> [success |-> TRUE,
                                history |-> [i \in 1..Len(pdf_history) |->
                                               HistoryItem(pdf_history[order[i]])]]]
         ELSE response' =
                [op |-> "get_pdf_history", status |-> 500,
                 detail |-> "Could not load PDF history", body |-> NoBody]
    /\ tmp' = "none"
    /\ unlinks' = <<>>
    /\ calls' = {"store"}
    /\ UNCHANGED <<pyqs, pdf_history, pc, locals>>

----------------------------------------------------------------------------
(* fastapi_app.py: upload_pdf *)

\* PDFHistory(filename=..., subject=..., timestamp=datetime.datetime.utcnow())
PDFHistory(filename, subject, timestamp) ==
    [filename |-> filename, subject |-> subject, timestamp |-> timestamp]

\* datetime.datetime.utcnow(): the clock has moved on, by one half-minute,
\* since the newest row was written
UtcNow(table) ==
    IF table = <<>> THEN 1 ELSE table[Len(table)].timestamp + 1

\* The "except Exception as e" of upload_pdf (lines 144-146), entered with the
\* exception e, the file state fs, the history table and the calls made so far:
\* it unlinks the temp file, whatever became of it, and raises a 500; an
\* exception of the unlink itself leaves the handler unhandled.
UploadExcept(req, e, fs, table, called) ==
    \E permitted \in BOOLEAN :
        LET u == os_unlink(fs, permitted)
        IN  /\ tmp' = u.tmp
            /\ unlinks' = u.unlinks
            /\ pdf_history' = table
            /\ calls' = called
            /\ response' =
                 IF u.raised = "none"
                 THEN Answer("upload_pdf", req, 500, FailedToProcess, e, NoBody)
                 ELSE Answer("upload_pdf", req, 500, ServerError, u.raised, NoBody)

upload_pdf ==
    /\ pc = "idle"
    /\ Len(pdf_history) < MaxHistory
    /\ \E req \in Requests :
         IF ~IsPdf(req.filename)
         THEN /\ response' = Answer("upload_pdf", req, 400, OnlyPdf, "", NoBody)
              /\ tmp' = "none"
              /\ unlinks' = <<>>
              /\ calls' = {}
              /\ UNCHANGED pdf_history
         ELSE \E commit_ok \in BOOLEAN :
                LET table == Append(pdf_history,
                                    PDFHistory(req.filename, req.subject, UtcNow(pdf_history)))
                    called == {"store", "renderer"}
                IN  IF ~commit_ok
                    THEN UploadExcept(req, "OperationalError", NewTempFile,
                                      pdf_history, {"store"})
                    ELSE IF ~req.file.readable
                    THEN UploadExcept(req, "FileDataError", NewTempFile, table, called)
                    ELSE IF extract_text_from_pdf(req.file) = <<>>
                    THEN \E permitted \in BOOLEAN :
                           LET u == os_unlink(NewTempFile, permitted)
                           IN  UploadExcept(req,
                                 IF u.raised = "none" THEN NoContentRaised ELSE u.raised,
                                 [tmp |-> u.tmp, unlinks |-> u.unlinks], table, called)
                    ELSE /\ response' =
                              Answer("upload_pdf", req, 200, "", "",
                                     [success |-> TRUE,
                                      chunks_count |-> Len(extract_text_from_pdf(req.file))])
                         /\ tmp' = NewTempFile.tmp
                         /\ unlinks' = NewTempFile.unlinks
                         /\ calls' = called
                         /\ pdf_history' = table
    /\ UNCHANGED <<pyqs, pc, locals>>

----------------------------------------------------------------------------
(* fastapi_app.py: process_pdf *)

NoLocals == [subject |-> NoSubject]

EmptyString == <<>>

\* (mutant) the cleanup unlinks without looking
os_path_exists_unchecked(fs) == TRUE

\* os.path.exists(tmp_pdf_path)
os_path_exists(fs) == fs.tmp = "exists"

\* The "except Exception as e" of process_pdf (lines 285-310), entered with the
\* exception e, the file state fs and the calls made so far: it closes pdf_doc
\* when there is one, unlinks the temp file if it exists, keeps a refused unlink
\* (or any other error of the cleanup) to a warning, and raises a 500.
ProcessExcept(req, e, fs, called) ==
    /\ IF os_path_exists(fs)
       THEN \E permitted \in BOOLEAN :
              /\ tmp' = os_unlink(fs, permitted).tmp
              /\ unlinks' = os_unlink(fs, permitted).unlinks
       ELSE /\ tmp' = fs.tmp
            /\ unlinks' = fs.unlinks
    /\ calls' = called
    /\ pc' = "idle"
    /\ locals' = NoLocals
    /\ response' = Answer("process_pdf", req, 500, FailedToProcess, e, NoBody)

\* Lines 149-178: the file name check, the temp file, the text extraction, the
\* no-content exit and fitz.open.
ProcessPdfStart ==
    /\ pc = "idle"
    /\ \E req \in Requests :
         IF ~IsPdf(req.filename)
         THEN /\ response' = Answer("process_pdf", req, 400, OnlyPdf, "", NoBody)
              /\ tmp' = "none"
              /\ unlinks' = <<>>
              /\ calls' = {}
              /\ UNCHANGED <<pc, locals>>
         ELSE IF ~req.file.readable
         THEN ProcessExcept(req, "FileDataError", NewTempFile, {"renderer"})
         ELSE IF extract_text_from_pdf(req.file) = <<>>
         THEN \E permitted \in BOOLEAN :
                LET u == os_unlink(NewTempFile, permitted)
                IN  ProcessExcept(req,
                      IF u.raised = "none" THEN NoContentRaised ELSE u.raised,
                      [tmp |-> u.tmp, unlinks |-> u.unlinks], {"renderer"})
         ELSE \E open_ok \in BOOLEAN :
                IF ~open_ok
                THEN ProcessExcept(req, "FileDataError", NewTempFile, {"renderer"})
                ELSE /\ pc' = "loop"
                     /\ locals' = [req             |-> req,
                                   subject         |-> req.subject,
                                   text_chunks     |-> extract_text_from_pdf(req.file),
                                   num_pages       |-> page_count(req.file),
                                   i               |-> 0,
                                   chunk_data_list |-> <<>>]
                     /\ tmp' = NewTempFile.tmp
                     /\ unlinks' = NewTempFile.unlinks
                     /\ calls' = {"renderer"}
                     /\ response' = Answer("process_pdf", req, 0, "", "", NoBody)
    /\ UNCHANGED <<pyqs, pdf_history>>

\* What the generative service does for infer_subtopic: a label, a failure of
\* llm.predict, or a failure to construct the client.
InferOutcomes == {"label", "predict_failed", "client_failed"}

\* infer_subtopic: llm.predict is inside its try ("General" on failure), the
\* construction of ChatOpenAI is not.
infer_subtopic(outcome) ==
    CASE outcome = "label"          -> [raised |-> FALSE, value |-> "Firewall"]
      [] outcome = "predict_failed" -> [raised |-> FALSE, value |-> "General"]
      [] OTHER                      -> [raised |-> TRUE, value |-> ""]

\* (mutant) the call is made outside any try
InferUnguarded(outcome) == infer_subtopic(outcome)

\* Lines 187-193: try: subtopic = infer_subtopic(chunk); except: "General"
TryInferSubtopic(outcome) ==
    IF infer_subtopic(outcome).raised
    THEN [raised |-> FALSE, value |-> "General"]
    ELSE infer_subtopic(outcome)

\* Lines 195-202: try: related_qs = get_relevant_pyqs(session, chunk, subject);
\* except: related_qs = []
TryGetRelevantPyqs(table, subject, retrieval_ok, ranking) ==
    IF retrieval_ok
    THEN get_relevant_pyqs(table, subject, DefaultK, ranking).results
    ELSE <<>>

\* What happens to one question: the service returns an excerpt of the notes,
\* or nothing ("" from the service, or from the except of
\* extract_answer_from_chunk), or sent_tokenize raises on the answer.
AnswerOutcomes == {"excerpt", "nothing", "tokenize_failed"}

\* extract_answer_from_chunk(chunk, question)
extract_answer_from_chunk(chunk, outcome) ==
    IF outcome = "nothing" THEN EmptyString ELSE chunk

\* sent.strip()
Strip(sentence) == IF sentence = " " THEN "" ELSE sentence

\* [sent.strip() for sent in sent_tokenize(answer_text) if sent.strip()]
CleanSentences(answer_text) ==
    SelectSeq([i \in 1..Len(answer_text) |-> Strip(answer_text[i])],
              LAMBDA sent : sent # "")

NoDirectAnswer == <<"(No direct answer found)">>

\* Lines 215-221
QuestionData(q, answer_text) ==
    [question  |-> q.page_content,
     sub_topic |-> q.metadata.sub_topic,
     marks     |-> q.metadata.marks,
     year      |-> q.metadata.year,
     answer    |-> IF answer_text # EmptyString THEN answer_text ELSE NoDirectAnswer]

\* Lines 205-225: the loop over related_qs, from question j on, with what it has
\* collected so far; a question whose processing raises is skipped.
RECURSIVE QuestionsLoop(_, _, _, _, _)
QuestionsLoop(chunk, related_qs, outcomes, j, acc) ==
    IF j > Len(related_qs)
    THEN acc
    ELSE IF outcomes[j] = "tokenize_failed"
    THEN QuestionsLoop(chunk, related_qs, outcomes, j + 1, acc)
    ELSE LET answer_text == extract_answer_from_chunk(chunk, outcomes[j])
         IN  QuestionsLoop(chunk, related_qs, outcomes, j + 1,
               [answers_to_highlight |->
                    acc.answers_to_highlight \o CleanSentences(answer_text),
                questions_data |->
                    Append(acc.questions_data, QuestionData(related_qs[j], answer_text))])

\* page.search_for(answer_frag): the fragment is found where the page has it
SearchFor(page_text, answer_frag) == \E s \in DOMAIN page_text : page_text[s] = answer_frag

\* Lines 227-254: the page image with its highlights in base64, "" when the
\* chunk has no page or the rendering raises
HighlightedImage(pages, i, num_pages, answers_to_highlight, render_ok) ==
    IF i < num_pages /\ render_ok
    THEN <<[page |-> i,
            highlights |-> SelectSeq(answers_to_highlight,
                                     LAMBDA frag : frag # "" /\ SearchFor(pages[i + 1], frag))]>>
    ELSE EmptyString

\* (mutant) the two lists are created once, before the loop, so a page starts
\* with what the page before it collected
PageListsCarriedOver(chunk_data_list) ==
    IF chunk_data_list = <<>>
    THEN [answers_to_highlight |-> <<>>, questions_data |-> <<>>]
    ELSE [answers_to_highlight |-> chunk_data_list[Len(chunk_data_list)].answers_highlighted,
          questions_data       |-> chunk_data_list[Len(chunk_data_list)].questions]

\* Lines 183-184: answers_to_highlight and questions_data are created empty at
\* the top of every iteration, whatever chunk_data_list holds by then
PageLists(chunk_data_list) ==
    [answers_to_highlight |-> <<>>, questions_data |-> <<>>]

\* One iteration of the loop of lines 181-262 with the given outcomes of its
\* external calls. An exception that reaches the loop body unguarded leaves
\* the loop for the handler of the request.
ProcessPdfPageWith(infer, retrieval_ok, ranking, outcomes, render_ok) ==
    LET i          == locals.i
        chunk      == locals.text_chunks[i + 1]
        subtopic   == TryInferSubtopic(infer)
        related_qs == TryGetRelevantPyqs(pyqs, locals.subject, retrieval_ok, ranking)
        collected  == QuestionsLoop(chunk, related_qs, outcomes, 1,
                        PageLists(locals.chunk_data_list))
        called     == calls \cup {"llm", "store", "index"}
                            \cup (IF i < locals.num_pages THEN {"renderer"} ELSE {})
    IN  /\ pc = "loop"
        /\ locals.i < Len(locals.text_chunks)
        /\ IF subtopic.raised
           THEN ProcessExcept(locals.req, "OpenAIError",
                              [tmp |-> tmp, unlinks |-> unlinks], called)
           ELSE /\ locals' =
                     [locals EXCEPT
                        !.i = i + 1,
                        !.chunk_data_list = Append(@,
                            [chunk_index         |-> i,
                             subtopic            |-> subtopic.value,
                             questions           |-> collected.questions_data,
                             highlighted_image   |->
                                 HighlightedImage(locals.req.file.pages, i, locals.num_pages,
                                     collected.answers_to_highlight, render_ok),
                             answers_highlighted |-> collected.answers_to_highlight])]
                /\ calls' = called
                /\ UNCHANGED <<tmp, unlinks, pc, response>>
        /\ UNCHANGED <<pyqs, pdf_history>>

PageInputs ==
    [infer : InferOutcomes, retrieval_ok : BOOLEAN, ranking : Rankings, render_ok : BOOLEAN]

\* One outcome for each question the retrieval returns
QuestionOutcomes(in) ==
    [1..Len(TryGetRelevantPyqs(pyqs, locals.subject, in.retrieval_ok, in.ranking))
        -> AnswerOutcomes]

ProcessPdfPage ==
    \E in \in PageInputs :
        \E outcomes \in QuestionOutcomes(in) :
            ProcessPdfPageWith(in.infer, in.retrieval_ok, in.ranking, outcomes, in.render_ok)

\* Lines 264-283: close the document, unlink the temp file (a second time after
\* a PermissionError), answer with every chunk's data.
ProcessPdfFinish ==
    /\ pc = "loop"
    /\ locals.i = Len(locals.text_chunks)
    /\ LET done(fs) ==
               /\ tmp' = fs.tmp
               /\ unlinks' = fs.unlinks
               /\ pc' = "idle"
               /\ locals' = NoLocals
               /\ UNCHANGED calls
               /\ response' =
                    Answer("process_pdf", locals.req, 200,
                           "PDF processed successfully", "",
                           [success      |-> TRUE,
                            total_chunks |-> Len(locals.text_chunks),
                            chunk_data   |-> locals.chunk_data_list])
       IN  \E first \in BOOLEAN :
             LET u1 == os_unlink([tmp |-> tmp, unlinks |-> unlinks], first)
             IN  IF u1.raised = "none"
                 THEN done(u1)
                 ELSE \E second \in BOOLEAN :
                        LET u2 == os_unlink([tmp |-> u1.tmp, unlinks |-> u1.unlinks], second)
                        IN  IF u2.raised = "none"
                            THEN done(u2)
                            ELSE ProcessExcept(locals.req, u2.raised,
                                               [tmp |-> u2.tmp, unlinks |-> u2.unlinks], calls)
    /\ UNCHANGED <<pyqs, pdf_history>>

----------------------------------------------------------------------------
(* The state of the service *)

\* A table loaded by data_loader.py before the service starts: one question of
\* subject "s1", none of subject "s2".
SeedPyqs == PyqObjects(<<[question |-> "q1", sub_topic |-> "t1", marks |-> 5, year |-> "2020"]>>, "s1")

NoResponse == [op |-> "none"]

Init ==
    /\ pyqs = SeedPyqs
    /\ pdf_history = <<>>
    /\ tmp = "none"
    /\ unlinks = <<>>
    /\ calls = {}
    /\ pc = "idle"
    /\ locals = NoLocals
    /\ response = NoResponse

Next ==
    \/ get_pdf_history
    \/ upload_pdf
    \/ ProcessPdfStart
    \/ ProcessPdfPage
    \/ ProcessPdfFinish

Spec == Init /\ [][Next]_vars

(* The data-access layer on its own, from an empty table *)

InitStore ==
    /\ pyqs = <<>>
    /\ pdf_history = <<>>
    /\ tmp = "none"
    /\ unlinks = <<>>
    /\ calls = {}
    /\ pc = "idle"
    /\ locals = NoLocals
    /\ response = NoResponse

NextStore == store_pyqs \/ GetRelevantPyqs

SpecStore == InitStore /\ [][NextStore]_vars

(* The bulk import on its own, from an empty table *)

NextLoader == load_pyqs_from_json

SpecLoader == InitStore /\ [][NextLoader]_vars

----------------------------------------------------------------------------
(* Claims about the HTTP handlers, checked under Spec *)

ApiOps == {"upload_pdf", "process_pdf"}

\* A request of the handler op that has been answered
Answered(op) == response.op = op /\ pc = "idle"

\* C1: a successful process_pdf on a PDF of n >= 1 pages answers success = true,
\* total_chunks = n and n entries in page order, the entry at position i (from
\* 0) having chunk_index = i and holding what belongs to page i: no page is
\* skipped or duplicated.
C1_OneEntryPerPage ==
    (Answered("process_pdf") /\ response.status = 200) =>
        LET n    == Len(response.file.pages)
            data == response.body.chunk_data
        IN  /\ n >= 1
            /\ response.body.success
            /\ response.body.total_chunks = n
            /\ Len(data) = n
            /\ \A j \in 1..n :
                  /\ data[j].chunk_index = j - 1
                  /\ \A a \in DOMAIN data[j].answers_highlighted :
                        \E s \in DOMAIN response.file.pages[j] :
                            response.file.pages[j][s] = data[j].answers_highlighted[a]
                  /\ data[j].highlighted_image # EmptyString
                        => data[j].highlighted_image[1].page = j - 1

\* A successful answer for a PDF of several pages, each with a highlighted answer
C1_Witness ==
    /\ Answered("process_pdf")
    /\ response.status = 200
    /\ Len(response.file.pages) >= 2
    /\ \A j \in DOMAIN response.body.chunk_data :
          /\ response.body.chunk_data[j].answers_highlighted # <<>>
          /\ response.body.chunk_data[j].highlighted_image # EmptyString

UnlinkRefused == \E i \in DOMAIN unlinks : unlinks[i] = "PermissionError"

\* The request reached the text extraction of a .pdf upload and got no chunk
ExtractedNothing ==
    /\ response.op \in ApiOps
    /\ pc = "idle"
    /\ IsPdf(response.filename)
    /\ "renderer" \in calls
    /\ response.file.readable
    /\ response.file.pages = <<>>

\* C3: when the text extraction of an uploaded .pdf yields no chunk, upload_pdf
\* and process_pdf both answer with status 400 and the detail "Could not
\* extract content from the PDF", not with status 500 nor an unhandled exception
\* (stated for the requests none of whose unlinks the system refuses).
C3_NoContentAnswers400 ==
    (ExtractedNothing /\ ~UnlinkRefused) =>
        (response.status = 400 /\ response.detail = NoContent)

\* C4: upload_pdf and process_pdf reject a file name that does not end in
\* ".pdf" with status 400 "Only PDF files are allowed" before any side effect:
\* no temp file, no history row, no call of an external service.
C4_NonPdfRejectedWithoutEffect ==
    [][(/\ pc = "idle"
        /\ response'.op \in ApiOps
        /\ ~EndsWith(response'.filename, <<".", "p", "d", "f">>))
       => /\ response'.status = 400
          /\ response'.detail = "Only PDF files are allowed"
          /\ tmp' = "none"
          /\ unlinks' = <<>>
          /\ calls' = {}
          /\ pdf_history' = pdf_history
          /\ pyqs' = pyqs
          /\ pc' = "idle"
      ]_vars

\* A rejected upload of a file whose name ends in "pdf" without the dot, made
\* when the history already has a row
C4_Witness ==
    /\ response.op = "upload_pdf"
    /\ response.filename = <<"p", "d", "f">>
    /\ response.status = 400
    /\ response.detail = OnlyPdf
    /\ pdf_history # <<>>
    /\ tmp = "none"

\* C8: get_pdf_history returns one item for every row of the upload history
\* and only those, newest timestamp first, and never modifies the store.
C8_HistoryNewestFirst ==
    /\ [](response.op = "get_pdf_history" /\ response.status = 200 =>
            LET items == response.body.history
                n     == Len(pdf_history)
            IN  /\ Len(items) = n
                /\ \E order \in Orderings(n) :
                      \A i \in 1..n :
                        /\ items[i].filename = pdf_history[order[i]].filename
                        /\ items[i].subject = pdf_history[order[i]].subject
                        /\ items[i].timestamp.minute = pdf_history[order[i]].timestamp \div 2
                        /\ i < n => pdf_history[order[i]].timestamp
                                      >= pdf_history[order[i + 1]].timestamp)
    /\ [][(pc = "idle" /\ response'.op = "get_pdf_history")
            => (pdf_history' = pdf_history /\ pyqs' = pyqs)]_vars

\* The history of two uploads of different subjects, returned newest first
C8_Witness ==
    /\ response.op = "get_pdf_history"
    /\ response.status = 200
    /\ Len(pdf_history) = 2
    /\ pdf_history[1].timestamp < pdf_history[2].timestamp
    /\ pdf_history[1].subject # pdf_history[2].subject
    /\ response.body.history[1].subject = pdf_history[2].subject

\* The number of unlinks of the request that removed the file
Deletions == Cardinality({i \in DOMAIN unlinks : unlinks[i] = "ok"})

\* The request unlinked a file that was not there
UnlinkedMissing == \E i \in DOMAIN unlinks : unlinks[i] = "FileNotFoundError"

C10_UploadTempFileDeletedOnce ==
    (Answered("upload_pdf") /\ IsPdf(response.filename) /\ ~UnlinkRefused) =>
        (tmp = "deleted" /\ Deletions = 1 /\ ~UnlinkedMissing)

\* The entries process_pdf has built: those of the request in progress, or
\* those of the success answer
BuiltEntries ==
    IF pc = "loop" THEN locals.chunk_data_list
    ELSE IF Answered("process_pdf") /\ response.status = 200
    THEN response.body.chunk_data
    ELSE <<>>

\* The pages of the PDF those entries were built for
BuiltForPages ==
    IF pc = "loop" THEN locals.req.file.pages
    ELSE IF Answered("process_pdf") /\ response.status = 200
    THEN response.file.pages
    ELSE <<>>

\* The subject those entries were built for
BuiltForSubject == IF pc = "loop" THEN locals.subject ELSE response.subject

\* The entry of page i holds nothing but what page i and its own retrieval give
EntryOfPageOnly(entry, i, pages, docs) ==
    LET page_text == pages[i + 1]
        answered  == SelectSeq(entry.questions, LAMBDA qd : qd.answer # NoDirectAnswer)
    IN  /\ Len(entry.questions) <= Len(docs)
        /\ Len(entry.questions) <= DefaultK
        /\ \A q \in DOMAIN entry.questions :
              /\ \E d \in DOMAIN docs :
                    /\ docs[d].page_content = entry.questions[q].question
                    /\ docs[d].metadata.sub_topic = entry.questions[q].sub_topic
                    /\ docs[d].metadata.marks = entry.questions[q].marks
                    /\ docs[d].metadata.year = entry.questions[q].year
              /\ entry.questions[q].answer \in {NoDirectAnswer, page_text}
        /\ \A a \in DOMAIN entry.answers_highlighted :
              SearchFor(page_text, entry.answers_highlighted[a])
        /\ Len(entry.answers_highlighted) = Len(answered) * Len(page_text)
        /\ entry.highlighted_image # EmptyString =>
              /\ i < Len(pages)
              /\ entry.highlighted_image[1].page = i
              /\ \A h \in DOMAIN entry.highlighted_image[1].highlights :
                    /\ SearchFor(entry.answers_highlighted,
                                 entry.highlighted_image[1].highlights[h])
                    /\ SearchFor(page_text, entry.highlighted_image[1].highlights[h])
              /\ Len(entry.highlighted_image[1].highlights) <= Len(entry.answers_highlighted)

\* C12: the per-page results of process_pdf are isolated: the questions and
\* answers_highlighted of the entry of page i come only from the text of page i
\* and the documents retrieved for it, the highlights of its image come only
\* from its own answers_highlighted, an image exists only when i is below the
\* page count, and nothing collected for one page shows up in the entry of
\* another.
C12_PageResultsIsolated ==
    \A j \in DOMAIN BuiltEntries :
        EntryOfPageOnly(BuiltEntries[j], j - 1, BuiltForPages,
                        load_vectorstore_from_db(pyqs, BuiltForSubject))

\* A success answer for two pages with different texts, each entry with an
\* answered question and a highlight on its image, built after the entry of
\* the first page was already in the list
C12_Witness ==
    /\ Answered("process_pdf")
    /\ response.status = 200
    /\ Len(response.body.chunk_data) = 2
    /\ response.file.pages[1] # response.file.pages[2]
    /\ \A j \in 1..2 :
          /\ response.body.chunk_data[j].questions # <<>>
          /\ response.body.chunk_data[j].questions[1].answer = response.file.pages[j]
          /\ response.body.chunk_data[j].answers_highlighted # <<>>
          /\ response.body.chunk_data[j].highlighted_image # EmptyString
          /\ response.body.chunk_data[j].highlighted_image[1].highlights # <<>>

----------------------------------------------------------------------------
(* Claims about store_pyqs and get_relevant_pyqs, checked under SpecStore *)

\* The positions of the batch whose entry has a non-empty question
ValidPositions(batch) ==
    {i \in DOMAIN batch : "question" \in DOMAIN batch[i] /\ batch[i]["question"] # ""}

\* The position of the j-th entry with a non-empty question
NthValid(batch, j) ==
    CHOOSE i \in ValidPositions(batch) :
        Cardinality({m \in ValidPositions(batch) : m <= i}) = j

\* C5: when the commit of store_pyqs succeeds, the rows added to the table are
\* exactly the input entries with a non-empty question, each under the given
\* subject and in input order; entries with a missing or empty question are
\* skipped; the returned integer is the number of rows inserted.
C5_StoresExactlyValidEntries ==
    (response.op = "store_pyqs" /\ response.commit_ok) =>
        LET batch == response.pyqs
            n     == Cardinality(ValidPositions(batch))
            old   == Len(response.before)
        IN  /\ response.returned = n
            /\ Len(pyqs) = old + n
            /\ SubSeq(pyqs, 1, old) = response.before
            /\ \A j \in 1..n :
                  /\ pyqs[old + j].subject = response.subject
                  /\ pyqs[old + j].question = batch[NthValid(batch, j)]["question"]

\* A committed batch, added to a table that already has rows, whose first
\* entry has no usable question (missing or empty) and whose second has one
C5_Witness ==
    /\ response.op = "store_pyqs"
    /\ response.commit_ok
    /\ response.before # <<>>
    /\ Len(response.pyqs) = 2
    /\ ValidPositions(response.pyqs) = {2}
    /\ response.returned = 1

\* C6: when adding or committing the batch fails, the stored PYQ rows are the
\* same as before the call (no entry of the batch is persisted) and store_pyqs
\* returns 0 instead of raising.
C6_FailedBatchPersistsNothing ==
    (response.op = "store_pyqs" /\ ~response.commit_ok) =>
        /\ pyqs = response.before
        /\ response.returned = 0

\* A failed commit of a batch that had rows to insert
C6_Witness ==
    /\ response.op = "store_pyqs"
    /\ ~response.commit_ok
    /\ Cardinality(ValidPositions(response.pyqs)) >= 2
    /\ response.before # <<>>

\* The stored rows a document can have been built from
BuiltFrom(doc, subject) ==
    \E i \in DOMAIN pyqs :
        /\ pyqs[i].question = doc.page_content
        /\ pyqs[i].subject = doc.metadata.subject
        /\ pyqs[i].sub_topic = doc.metadata.sub_topic
        /\ pyqs[i].marks = doc.metadata.marks
        /\ pyqs[i].year = doc.metadata.year
        /\ (subject # NoSubject => pyqs[i].subject = subject)

\* C7: get_relevant_pyqs returns at most k documents; every returned document
\* is built from a stored PYQ row, whose subject is the requested one when a
\* subject is given; and it returns the empty list without calling the
\* similarity search when the table holds no row for the given subject.
C7_AtMostKOfTheSubject ==
    response.op = "get_relevant_pyqs" =>
        /\ Len(response.returned) <= response.k
        /\ \A j \in DOMAIN response.returned :
              BuiltFrom(response.returned[j], response.subject)
        /\ (/\ response.subject # NoSubject
            /\ \A i \in DOMAIN pyqs : pyqs[i].subject # response.subject)
           => (response.returned = <<>> /\ ~response.searched)

\* A search that had more than k rows of the subject to choose from, in a
\* table that also holds rows of another subject
C7_Witness ==
    /\ response.op = "get_relevant_pyqs"
    /\ response.subject # NoSubject
    /\ response.searched
    /\ Len(response.returned) = response.k
    /\ Cardinality({i \in DOMAIN pyqs : pyqs[i].subject = response.subject}) > response.k
    /\ \E i \in DOMAIN pyqs : pyqs[i].subject # response.subject

----------------------------------------------------------------------------
(* Claims about load_pyqs_from_json, checked under SpecLoader *)

\* C11: the count in the success message of load_pyqs_from_json equals the
\* value store_pyqs returned for the file (the number of records persisted),
\* also when entries lack a question and when the commit fails.
C11_ReportsRecordsStored ==
    (/\ response.op = "load_pyqs_from_json"
     /\ response.stored
     /\ response.message.kind = "inserted")
    => /\ response.message.count = response.returned
       /\ response.message.count = Len(pyqs) - Len(response.before)

====
